---- MODULE Spec2Model ----
(***************************************************************************)
(* Cookie session backend (session/sess_cookie.go): the process-wide       *)
(* CookieProvider `cookiepder`, the per-request CookieSessionStore with    *)
(* its sync.RWMutex, and the secure-cookie codec the two call.             *)
(*                                                                         *)
(* Strings are sequences of one-character strings.  A Go pointer, map or   *)
(* interface that may be nil is a sequence of length 0 (nil) or 1.         *)
(***************************************************************************)
EXTENDS Integers, Sequences, FiniteSets, TLC

\* ------------------------------------------------------------- bounds
\* the clock (seconds, time.Now().Unix()) runs from 0 to MaxTime
MaxTime == 2
\* concurrent tasks that touch one store within one request
NTasks == 3

\* ------------------------------------------------------------- values
\* keys and values an application stores in a session
Keys == {"uid", "n"}
\* the order in which the serializer lays the keys out
KeySeq == <<"uid", "n">>
\* "func" stands for a value of a type the serializer does not support
Vals == {"42", "func"}
\* what Get returns for an absent key
NIL == "nil"

EmptyMap == [k \in {} |-> NIL]

\* ------------------------------------------------------------- strings
Digits == <<"0", "1", "2", "3", "4", "5", "6", "7", "8", "9">>
DigitSet == {Digits[i] : i \in 1..10}
Letters == {"a", "b", "e", "g", "i", "j", "p", "r", "s", "v", "w", "z"}

RECURSIVE Concat(_)
Concat(ss) == IF ss = <<>> THEN <<>> ELSE Head(ss) \o Concat(Tail(ss))

\* strconv: decimal text of a non-negative integer, and back
RECURSIVE Itoa(_)
Itoa(n) == IF n < 10 THEN <<Digits[n + 1]>> ELSE Itoa(n \div 10) \o <<Digits[(n % 10) + 1]>>

DigitVal(c) == CHOOSE i \in 0..9 : Digits[i + 1] = c

RECURSIVE Atoi(_)
Atoi(s) == IF Len(s) = 1 THEN DigitVal(s[1])
           ELSE 10 * Atoi(SubSeq(s, 1, Len(s) - 1)) + DigitVal(s[Len(s)])

IsNumber(s) == Len(s) > 0 /\ \A i \in 1..Len(s) : s[i] \in DigitSet

\* bytes.Split on a one-character separator
RECURSIVE Split(_, _)
Split(s, sep) ==
    IF \A i \in 1..Len(s) : s[i] # sep THEN <<s>>
    ELSE LET i == CHOOSE j \in 1..Len(s) : s[j] = sep /\ \A h \in 1..(j - 1) : s[h] # sep
         IN  <<SubSeq(s, 1, i - 1)>> \o Split(SubSeq(s, i + 1, Len(s)), sep)

\* ------------------------------------------------------------- net/url
\* url.QueryEscape: letters, digits and - _ . ~ are kept, a space becomes +,
\* every other byte becomes % and its two upper-case hex digits
Unreserved == DigitSet \cup Letters \cup {"-", "_", ".", "~"}

HexOf(c) ==
    CASE c = "=" -> <<"3", "D">>
      [] c = "|" -> <<"7", "C">>
      [] c = "%" -> <<"2", "5">>
      [] c = "+" -> <<"2", "B">>
      [] OTHER   -> <<"3", "F">>

shouldEscape(c) == c \notin Unreserved

QueryEscape(s) ==
    Concat([i \in 1..Len(s) |->
              IF ~shouldEscape(s[i]) THEN <<s[i]>>
              ELSE IF s[i] = " " THEN <<"+">>
              ELSE <<"%">> \o HexOf(s[i])])

\* ------------------------------------------------------------- codec
\* The secure-cookie codec, encodeCookie/decodeCookie, and generateRandomKey
\* belong to this package but to another file of it.  They are modelled
\* symbolically: a key is known to the codec by one byte (KeyByte), the
\* cipher text names the block key that made it, and the authentication tag
\* names the secret and repeats what it authenticates, so that a tag made
\* with another secret, label, timestamp or cipher text never matches.
KeyByte(k) ==
    CASE k = "k1" -> "a"
      [] k = "k2" -> "b"
      [] k = "s" -> "s"
      [] k = "0123456789abcdef" -> "p"
      [] k = "rrrrrrrrrrrrrrrr" -> "r"
      [] k = "gggggggggggggggggggg" -> "g"
      [] OTHER -> "e"

ValByte(v) == IF v = "42" THEN "v" ELSE "z"
ByteVal(c) == IF c = "v" THEN "42" ELSE NIL

\* random bytes: 16 for a block key, 20 for a security name
generateRandomKey(n) ==
    IF n = 16 THEN {"rrrrrrrrrrrrrrrr"} ELSE {"gggggggggggggggggggg"}

\* initialization vectors the cipher mode draws, one per encode
IVs == {"i"}

\* serialization: one byte per key of KeySeq, "z" where the key is absent
Encodable(values) == \A k \in DOMAIN values : values[k] # "func"
encodeGob(values) ==
    [i \in 1..Len(KeySeq) |->
        IF KeySeq[i] \in DOMAIN values THEN ValByte(values[KeySeq[i]]) ELSE "z"]
GobOK(b) == Len(b) = Len(KeySeq) /\ \A i \in 1..Len(b) : b[i] \in {"v", "z"}
decodeGob(b) ==
    [k \in {KeySeq[i] : i \in {j \in 1..Len(b) : b[j] # "z"}} |->
        ByteVal(b[CHOOSE i \in 1..Len(b) : KeySeq[i] = k])]

\* encryption under the block key, the fresh iv prepended
encrypt(block, iv, b) == <<iv, KeyByte(block[1])>> \o b
\* decryption with another key yields bytes that do not deserialize
decrypt(block, ct) ==
    IF Len(ct) >= 2 /\ ct[2] = KeyByte(block[1]) THEN SubSeq(ct, 3, Len(ct)) ELSE <<"?">>

\* keyed tag over the encrypted payload, the security name and the timestamp
mac(hashKey, ct, name, ts) == <<KeyByte(hashKey)>> \o ct \o <<KeyByte(name)>> \o ts

\* the URL-safe text of timestamp, tag and cipher text, and its inverse
\* (<<>> for nil: a text with a byte outside the URL-safe alphabet)
UrlSafeAlphabet == DigitSet \cup Letters \cup {"_"}
encode(b) == [i \in 1..Len(b) |-> IF b[i] = "|" THEN "_" ELSE b[i]]
decode(s) ==
    IF \E i \in 1..Len(s) : s[i] \notin UrlSafeAlphabet THEN <<>>
    ELSE <<[i \in 1..Len(s) |-> IF s[i] = "_" THEN "|" ELSE s[i]]>>

\* encode(cipher, securityKey, securityName, values) at time t with iv drawn
encodeCookie(block, hashKey, name, value, iv, t) ==
    IF ~Encodable(value) THEN [str |-> <<>>, err |-> "error"]
    ELSE IF block = <<>> THEN [str |-> <<>>, err |-> "panic"]
    ELSE LET ct == encrypt(block, iv, encodeGob(value))
             ts == Itoa(t)
         IN  [str |-> encode(ts \o <<"|">> \o mac(hashKey, ct, name, ts) \o <<"|">> \o ct),
              err |-> "nil"]

\* decode(cipher, securityKey, securityName, cookieString, maxAge) at time t:
\* the tag first, then the age, then decryption and deserialization
decodeCookie(block, hashKey, name, value, gcmaxlifetime, t) ==
    LET b == decode(value)
        parts == Split(b[1], "|")
        Invalid == [maps |-> <<>>, err |-> "error"]
    IN  IF b = <<>> THEN Invalid
        ELSE IF Len(parts) # 3 THEN Invalid
        ELSE IF parts[2] # mac(hashKey, parts[3], name, parts[1]) THEN Invalid
        ELSE IF ~IsNumber(parts[1]) THEN Invalid
        ELSE IF t - Atoi(parts[1]) > gcmaxlifetime THEN Invalid
        ELSE IF block = <<>> THEN [maps |-> <<>>, err |-> "panic"]
        ELSE IF ~GobOK(decrypt(block, parts[3])) THEN Invalid
        ELSE [maps |-> <<decodeGob(decrypt(block, parts[3]))>>, err |-> "nil"]

\* ------------------------------------------------------------- state
\* request handlers, each holding at most one store (its variable `rs`)
Reqs == {"r1", "r2"}
\* addresses of the maps on the heap
MapIds == 1..Cardinality(Reqs)
Tasks == 1..NTasks

VARIABLES
    now,        \* time.Now().Unix()
    cookiepder, \* the package's CookieProvider: maxlifetime, config, block
    provP,      \* a CookieProvider an application constructed itself
    stores,     \* per request: <<>> or <<the CookieSessionStore's sid and values>>
    maps,       \* the heap: map address -> mapping
    lock,       \* per request: its store's sync.RWMutex
    w,          \* the cookies set on the response sink of the last SessionRelease
    jar,        \* the client's cookie, with when it was set and what it encoded
    ret,        \* what the last call returned
    pc,         \* per task: where it is in its call on the store of TaskReq
    call        \* per task: the call it makes and what the call returned

vars == <<now, cookiepder, provP, stores, maps, lock, w, jar, ret, pc, call>>

\* ------------------------------------------------------------- configuration
ZeroConfig ==
    [SecurityKey |-> "", BlockKey |-> "", SecurityName |-> "", CookieName |-> "",
     Secure |-> FALSE, Maxage |-> 0]

Config(sk, bk, sn, secure, maxage) ==
    [SecurityKey |-> sk, BlockKey |-> bk, SecurityName |-> sn, CookieName |-> "sess",
     Secure |-> secure, Maxage |-> maxage]

\* configuration payloads handed to SessionInit: the parsed fields, or malformed
PayloadA == [malformed |-> FALSE, fields |-> Config("k1", "0123456789abcdef", "s", FALSE, 2)]
PayloadB == [malformed |-> FALSE, fields |-> Config("k2", "", "", TRUE, 1)]
PayloadD == [malformed |-> FALSE, fields |-> Config("k1", "short", "s", FALSE, 1)]
PayloadM == [malformed |-> TRUE, fields |-> ZeroConfig]

\* the calls of SessionInit: maxlifetime below, at and above the payload's maxage
InitCalls ==
    { <<0, PayloadA>>, <<2, PayloadA>>, <<2, PayloadB>>, <<2, PayloadD>>, <<2, PayloadM>> }

\* json.Unmarshal into a zero cookieConfig
Unmarshal(config) ==
    IF config.malformed THEN [cfg |-> ZeroConfig, err |-> "error"]
    ELSE [cfg |-> config.fields, err |-> "nil"]

\* the cipher takes a key of any length
NewCipher_AnyLength(key) == [block |-> <<key>>, err |-> "nil"]

\* aes.NewCipher: a key of 16, 24 or 32 bytes, or (nil, KeySizeError)
NewCipher(key) ==
    IF Len(key) \in {16, 24, 32} THEN [block |-> <<key>>, err |-> "nil"]
    ELSE [block |-> <<>>, err |-> "error"]

Ret(op, val, err) == [op |-> op, val |-> val, err |-> err]

conc == <<lock, pc, call>>

\* ------------------------------------------------------------- the mapping
\* Set builds the mapping anew from the one key
MapSet_Replace(m, k, v) == [x \in {k} |-> v]
MapSet(m, k, v) == [x \in DOMAIN m \cup {k} |-> IF x = k THEN v ELSE m[x]]
\* Get answers an absent key with a default value
MapGet_Default(m, k) == IF k \in DOMAIN m THEN m[k] ELSE ""
MapGet(m, k) == IF k \in DOMAIN m THEN m[k] ELSE NIL
\* Delete drops every key
MapDelete_All(m, k) == EmptyMap
MapDelete(m, k) == [x \in DOMAIN m \ {k} |-> m[x]]

\* every store is given one shared map
NewMapId_Shared(heap) == 1

\* make(map[interface{}]interface{}): the address of a new map, one that no
\* live map has (addresses are told apart only by being equal or not, so the
\* map the store is about to drop gives its address back first)
NewMapId(heap) == CHOOSE i \in MapIds \ DOMAIN heap : \A j \in MapIds \ DOMAIN heap : i <= j

\* the heap without the maps no store refers to any more
Collect(heap, sts) ==
    [i \in {j \in DOMAIN heap : \E r \in Reqs : sts[r] # <<>> /\ sts[r][1].values = j} |-> heap[i]]

Values(r) == maps[stores[r][1].values]
RWFree == [writer |-> FALSE, readers |-> 0]

\* ------------------------------------------------------------- CookieProvider
\* &CookieProvider{}
NewProvider == [maxlifetime |-> 0, config |-> <<>>, block |-> <<>>]

\* The last SessionInit on pder returned nil: its cipher is in place and its
\* configuration has a block key (the one configured or the one generated).
ServingOn(pder) ==
    pder.config # <<>> /\ pder.block # <<>> /\ pder.config[1].BlockKey # ""

\* The registry calls SessionInit while the process starts, before it serves a
\* request, and serves requests only once SessionInit has returned nil.
Serving == ServingOn(cookiepder)

\* what SessionInit may leave of the receiver pder, and the error it returns
SessionInitOn(pder, maxlifetime, config) ==
    LET u == Unmarshal(config)
    IN  IF u.err # "nil"
        THEN {[pder |-> [pder EXCEPT !.config = <<u.cfg>>], err |-> "error"]}
        ELSE {LET cfg == [u.cfg EXCEPT !.BlockKey = bk, !.SecurityName = sn]
                  c == NewCipher(bk)
              IN  IF c.err # "nil"
                  THEN [pder |-> [pder EXCEPT !.config = <<cfg>>, !.block = c.block],
                        err |-> "error"]
                  ELSE [pder |-> [maxlifetime |-> maxlifetime, config |-> <<cfg>>,
                                  block |-> c.block],
                        err |-> "nil"] :
                bk \in (IF u.cfg.BlockKey = "" THEN generateRandomKey(16) ELSE {u.cfg.BlockKey}),
                sn \in (IF u.cfg.SecurityName = "" THEN generateRandomKey(20) ELSE {u.cfg.SecurityName})}

SessionInit(maxlifetime, config) ==
    /\ \A r \in Reqs : stores[r] = <<>>
    /\ \E o \in SessionInitOn(cookiepder, maxlifetime, config) :
          /\ cookiepder' = o.pder
          /\ ret' = Ret("SessionInit", NIL, o.err)
    /\ UNCHANGED <<now, provP, stores, maps, w, jar, conc>>

\* strings a request may present as its cookie: none, junk, the cookie the
\* client holds, or that cookie with its timestamp changed
Tamper(s) == [s EXCEPT ![1] = IF @ = "0" THEN "1" ELSE "0"]
ReadInputs ==
    {<<>>, <<"=">>} \cup {jar[i].cookie.Value : i \in 1..Len(jar)}
                    \cup {Tamper(jar[i].cookie.Value) : i \in 1..Len(jar)}

\* what decodeCookie yields for sid under the present state of the receiver
DecodedBy(pder, sid) ==
    decodeCookie(pder.block, pder.config[1].SecurityKey,
                 pder.config[1].SecurityName, sid, pder.maxlifetime, now)

Decoded(sid) == DecodedBy(cookiepder, sid)

\* SessionRead leaves the sid out of the store
NewStore_NoSid(sid, id) == [sid |-> <<>>, values |-> id]

\* &CookieSessionStore{sid: sid, values: maps}
NewStore(sid, id) == [sid |-> sid, values |-> id]

\* the mapping SessionRead wraps: the decoded one, or a new empty one
ReadMaps(d) == IF d.maps = <<>> THEN EmptyMap ELSE d.maps[1]

\* SessionRead with receiver pder, for the request r
SessionReadOn(pder, r, sid) ==
    /\ IF pder.config = <<>> \/ DecodedBy(pder, sid).err = "panic"
       THEN /\ ret' = Ret("SessionRead", NIL, "panic")
            /\ UNCHANGED <<stores, maps, lock>>
       ELSE LET d == DecodedBy(pder, sid)
                m == ReadMaps(d)
                id == NewMapId(Collect(maps, [stores EXCEPT ![r] = <<>>]))
                rs == NewStore(sid, id)
                sts == [stores EXCEPT ![r] = <<rs>>]
            IN  /\ stores' = sts
                /\ maps' = Collect([i \in DOMAIN maps \cup {id} |-> IF i = id THEN m ELSE maps[i]], sts)
                /\ lock' = [lock EXCEPT ![r] = RWFree]
                /\ ret' = Ret("SessionRead", NIL, "nil")
    /\ UNCHANGED <<now, cookiepder, provP, w, jar, pc, call>>

SessionRead(r, sid) ==
    /\ Serving
    /\ SessionReadOn(cookiepder, r, sid)

\* the methods the registry's provider contract asks for and this backend
\* does not need
Frame == UNCHANGED <<now, cookiepder, provP, stores, maps, lock, w, jar, pc, call>>

SessionExist(sid) ==
    /\ ret' = Ret("SessionExist", TRUE, "nil")
    /\ Frame

SessionRegenerate(oldsid, sid) ==
    /\ ret' = Ret("SessionRegenerate", NIL, "nil")
    /\ Frame

SessionDestroy(sid) ==
    /\ ret' = Ret("SessionDestroy", NIL, "nil")
    /\ Frame

\* SessionGC drops the provider's cipher
SessionGC_DropsCipher ==
    /\ ret' = Ret("SessionGC", NIL, "nil")
    /\ cookiepder' = [cookiepder EXCEPT !.block = <<>>]
    /\ UNCHANGED <<now, provP, stores, maps, lock, w, jar, pc, call>>

SessionGC ==
    /\ ret' = Ret("SessionGC", NIL, "nil")
    /\ Frame

\* SessionAll counts the stores that are in use
SessionAll_Counts ==
    /\ ret' = Ret("SessionAll", Cardinality({r \in Reqs : stores[r] # <<>>}), "nil")
    /\ Frame

SessionAll ==
    /\ ret' = Ret("SessionAll", 0, "nil")
    /\ Frame

SessionUpdate(sid) ==
    /\ ret' = Ret("SessionUpdate", NIL, "nil")
    /\ Frame

\* ------------------------------------------------------------- sync.RWMutex
CanLock(l) == ~l.writer /\ l.readers = 0
Lock(l) == [l EXCEPT !.writer = TRUE]
\* the deferred Unlock is missing
Unlock_Forgotten(l) == l
Unlock(l) == [l EXCEPT !.writer = FALSE]
CanRLock(l) == ~l.writer
RLock(l) == [l EXCEPT !.readers = @ + 1]
RUnlock(l) == [l EXCEPT !.readers = @ - 1]

\* ------------------------------------------------------------- CookieSessionStore
\* the statements the store's methods run between taking and dropping the lock
SetBody(r, k, v) ==
    /\ maps' = [maps EXCEPT ![stores[r][1].values] = MapSet(@, k, v)]
    /\ UNCHANGED stores

GetBody(r, k) == MapGet(Values(r), k)

DeleteBody(r, k) ==
    /\ maps' = [maps EXCEPT ![stores[r][1].values] = MapDelete(@, k)]
    /\ UNCHANGED stores

\* Flush assigns the new map to a local variable
FlushBody_Local(r) == UNCHANGED <<stores, maps>>

FlushBody(r) ==
    LET id == NewMapId(Collect(maps, [stores EXCEPT ![r] = <<>>]))
        sts == [stores EXCEPT ![r] = <<[stores[r][1] EXCEPT !.values = id]>>]
    IN  /\ stores' = sts
        /\ maps' = Collect([i \in DOMAIN maps \cup {id} |-> IF i = id THEN EmptyMap ELSE maps[i]], sts)

\* SessionID returns the empty string
SessionID_Empty(r) ==
    /\ stores[r] # <<>>
    /\ ret' = Ret("SessionID", <<>>, "nil")
    /\ Frame

\* return st.sid
SessionID(r) ==
    /\ stores[r] # <<>>
    /\ ret' = Ret("SessionID", stores[r][1].sid, "nil")
    /\ Frame

\* a whole call, no other call on the store in progress
Set(r, k, v) ==
    /\ stores[r] # <<>>
    /\ CanLock(lock[r])
    /\ SetBody(r, k, v)
    /\ ret' = Ret("Set", NIL, "nil")
    /\ UNCHANGED <<now, cookiepder, provP, w, jar, conc>>

Get(r, k) ==
    /\ stores[r] # <<>>
    /\ CanRLock(lock[r])
    /\ ret' = Ret("Get", GetBody(r, k), "nil")
    /\ UNCHANGED <<now, cookiepder, provP, stores, maps, w, jar, conc>>

Delete(r, k) ==
    /\ stores[r] # <<>>
    /\ CanLock(lock[r])
    /\ DeleteBody(r, k)
    /\ ret' = Ret("Delete", NIL, "nil")
    /\ UNCHANGED <<now, cookiepder, provP, w, jar, conc>>

Flush(r) ==
    /\ stores[r] # <<>>
    /\ CanLock(lock[r])
    /\ FlushBody(r)
    /\ ret' = Ret("Flush", NIL, "nil")
    /\ UNCHANGED <<now, cookiepder, provP, w, jar, conc>>

\* the cookie is left readable by scripts
Cookie_NotHttpOnly(str) ==
    [Name |-> cookiepder.config[1].CookieName,
     Value |-> QueryEscape(str),
     Path |-> <<"/">>,
     HttpOnly |-> FALSE,
     Secure |-> cookiepder.config[1].Secure,
     MaxAge |-> cookiepder.config[1].Maxage]

\* the http.Cookie SessionRelease builds from the encoded string
Cookie(str) ==
    [Name |-> cookiepder.config[1].CookieName,
     Value |-> QueryEscape(str),
     Path |-> <<"/">>,
     HttpOnly |-> TRUE,
     Secure |-> cookiepder.config[1].Secure,
     MaxAge |-> cookiepder.config[1].Maxage]

\* SessionRelease encodes the mapping the store was constructed with
ReleaseValues_AsRead(r) == ReadMaps(Decoded(stores[r][1].sid))

\* the mapping SessionRelease hands to encodeCookie: st.values
ReleaseValues(r) == Values(r)

\* what SessionRelease on the store of r does to the response sink w of the
\* call, and the cookie the client then keeps
ReleaseEffect(r) ==
    IF cookiepder.config = <<>>
    THEN /\ ret' = Ret("SessionRelease", NIL, "panic")
         /\ w' = <<>>
         /\ UNCHANGED jar
    ELSE \E iv \in IVs :
           LET e == encodeCookie(cookiepder.block, cookiepder.config[1].SecurityKey,
                                 cookiepder.config[1].SecurityName, ReleaseValues(r), iv, now)
           IN  IF e.err # "nil"
               THEN /\ ret' = Ret("SessionRelease", NIL, IF e.err = "panic" THEN "panic" ELSE "nil")
                    /\ w' = <<>>
                    /\ UNCHANGED jar
               ELSE /\ w' = <<Cookie(e.str)>>
                    /\ jar' = <<[cookie |-> Cookie(e.str), t |-> now, V |-> ReleaseValues(r)]>>
                    /\ ret' = Ret("SessionRelease", NIL, "nil")

\* w is the sink of this call's response; the client keeps the cookie set on it
SessionRelease(r) ==
    /\ stores[r] # <<>>
    /\ ReleaseEffect(r)
    /\ UNCHANGED <<now, cookiepder, provP, stores, maps, conc>>

\* a second passes
Tick ==
    /\ now < MaxTime
    /\ now' = now + 1
    /\ UNCHANGED <<cookiepder, provP, stores, maps, w, jar, ret, conc>>

\* ------------------------------------------------------------- specification
\* the package as loaded: cookiepder = &CookieProvider{}, no request yet
Init ==
    /\ now = 0
    /\ cookiepder = NewProvider
    /\ provP = NewProvider
    /\ stores = [r \in Reqs |-> <<>>]
    /\ maps = [i \in {} |-> EmptyMap]
    /\ lock = [r \in Reqs |-> RWFree]
    /\ w = <<>>
    /\ jar = <<>>
    /\ ret = Ret("", NIL, "nil")
    /\ pc = [t \in Tasks |-> "idle"]
    /\ call = [t \in Tasks |-> [op |-> "", key |-> "", val |-> NIL, ret |-> NIL]]

\* one request at a time, over the provider's whole life
One == {"r1"}
Next ==
    \/ \E ic \in InitCalls : SessionInit(ic[1], ic[2])
    \/ \E r \in One, sid \in ReadInputs : SessionRead(r, sid)
    \/ \E r \in One, k \in Keys, v \in Vals : Set(r, k, v)
    \/ \E r \in One, k \in Keys : Get(r, k)
    \/ \E r \in One, k \in Keys : Delete(r, k)
    \/ \E r \in One : Flush(r)
    \/ \E r \in One : SessionRelease(r)
    \/ Tick

Spec == Init /\ [][Next]_vars

\* ------------------------------------------------------------- whole contract
\* every method of the provider and of the store, on one request, within one
\* second
SidInputs == {<<>>, <<"=">>}

ContractNext ==
    \/ \E ic \in InitCalls : SessionInit(ic[1], ic[2])
    \/ \E r \in One, sid \in ReadInputs : SessionRead(r, sid)
    \/ \E r \in One, k \in Keys, v \in Vals : Set(r, k, v)
    \/ \E r \in One, k \in Keys : Get(r, k)
    \/ \E r \in One, k \in Keys : Delete(r, k)
    \/ \E r \in One : Flush(r)
    \/ \E r \in One : SessionRelease(r)
    \/ \E sid \in SidInputs : SessionExist(sid)
    \/ \E oldsid \in SidInputs, sid \in SidInputs : SessionRegenerate(oldsid, sid)
    \/ \E sid \in SidInputs : SessionDestroy(sid)
    \/ SessionGC
    \/ SessionAll
    \/ \E sid \in SidInputs : SessionUpdate(sid)
    \/ \E r \in One : SessionID(r)

ContractSpec == Init /\ [][ContractNext]_vars

\* ------------------------------------------------------------- a second provider
\* An application constructs a CookieProvider of its own, provP, calls its
\* SessionInit and reads its stores from it; the package's cookiepder is
\* initialized or not, as the registry's user left it.
SessionInitP(maxlifetime, config) ==
    /\ \A r \in Reqs : stores[r] = <<>>
    /\ \E o \in SessionInitOn(provP, maxlifetime, config) :
          /\ provP' = o.pder
          /\ ret' = Ret("SessionInit", NIL, o.err)
    /\ UNCHANGED <<now, cookiepder, stores, maps, w, jar, conc>>

SessionReadP(r, sid) ==
    /\ ServingOn(provP)
    /\ SessionReadOn(provP, r, sid)

InstNext ==
    \/ \E ic \in InitCalls : SessionInit(ic[1], ic[2])
    \/ \E ic \in InitCalls : SessionInitP(ic[1], ic[2])
    \/ \E r \in One, sid \in ReadInputs : SessionReadP(r, sid)
    \/ \E r \in One, k \in Keys, v \in Vals : Set(r, k, v)
    \/ \E r \in One, k \in Keys : Delete(r, k)
    \/ \E r \in One : SessionRelease(r)

InstSpec == Init /\ [][InstNext]_vars

\* ------------------------------------------------------------- two requests
\* the provider initialized by SessionInit(2, PayloadA), then two requests
\* in flight at once, each with its own store
Initialized ==
    [maxlifetime |-> 2, config |-> <<PayloadA.fields>>, block |-> NewCipher(PayloadA.fields.BlockKey).block]

PairInit ==
    /\ now = 0
    /\ cookiepder = Initialized
    /\ provP = NewProvider
    /\ stores = [r \in Reqs |-> <<>>]
    /\ maps = [i \in {} |-> EmptyMap]
    /\ lock = [r \in Reqs |-> RWFree]
    /\ w = <<>>
    /\ jar = <<>>
    /\ ret = Ret("SessionInit", NIL, "nil")
    /\ pc = [t \in Tasks |-> "idle"]
    /\ call = [t \in Tasks |-> [op |-> "", key |-> "", val |-> NIL, ret |-> NIL]]

PairInputs == {<<>>} \cup {jar[i].cookie.Value : i \in 1..Len(jar)}

PairNext ==
    \/ \E r \in Reqs, sid \in PairInputs : SessionRead(r, sid)
    \/ \E r \in Reqs, k \in Keys : Set(r, k, "42")
    \/ \E r \in Reqs, k \in Keys : Get(r, k)
    \/ \E r \in Reqs, k \in Keys : Delete(r, k)
    \/ \E r \in Reqs : Flush(r)
    \/ \E r \in Reqs : SessionRelease(r)

PairSpec == PairInit /\ [][PairNext]_vars

\* ------------------------------------------------------------- concurrent tasks
\* several tasks of one request call Set/Get/Delete/Flush on its store, one
\* call each; a call is: take the lock, run the body, return (the deferred
\* unlock runs)
TaskReq == "r1"

\* the tasks contend for one key
TaskKeys == {"uid"}
TaskCalls ==
    {[op |-> "Set", key |-> k, val |-> v, ret |-> NIL] : k \in TaskKeys, v \in Vals}
      \cup {[op |-> o, key |-> k, val |-> NIL, ret |-> NIL] : o \in {"Get", "Delete"}, k \in TaskKeys}
      \cup {[op |-> "Flush", key |-> "", val |-> NIL, ret |-> NIL]}

\* Flush takes the read lock
IsWrite_NotFlush(c) == c.op \in {"Set", "Delete"}
IsWrite(c) == c.op \in {"Set", "Delete", "Flush"}

TaskCall(t, c) ==
    /\ pc[t] = "idle"
    /\ pc' = [pc EXCEPT ![t] = IF c.op = "SessionRelease" THEN "encode" ELSE "lock"]
    /\ call' = [call EXCEPT ![t] = c]
    /\ UNCHANGED <<now, cookiepder, provP, stores, maps, lock, w, jar, ret>>

\* st.lock.Lock() in Set, Delete and Flush, st.lock.RLock() in Get
TaskLock(t) ==
    /\ pc[t] = "lock"
    /\ IF IsWrite(call[t])
       THEN CanLock(lock[TaskReq]) /\ lock' = [lock EXCEPT ![TaskReq] = Lock(@)]
       ELSE CanRLock(lock[TaskReq]) /\ lock' = [lock EXCEPT ![TaskReq] = RLock(@)]
    /\ pc' = [pc EXCEPT ![t] = "body"]
    /\ UNCHANGED <<now, cookiepder, provP, stores, maps, w, jar, ret, call>>

TaskBody(t) ==
    /\ pc[t] = "body"
    /\ CASE call[t].op = "Set" -> SetBody(TaskReq, call[t].key, call[t].val) /\ UNCHANGED call
         [] call[t].op = "Delete" -> DeleteBody(TaskReq, call[t].key) /\ UNCHANGED call
         [] call[t].op = "Flush" -> FlushBody(TaskReq) /\ UNCHANGED call
         [] OTHER -> /\ call' = [call EXCEPT ![t].ret = GetBody(TaskReq, call[t].key)]
                     /\ UNCHANGED <<stores, maps>>
    /\ pc' = [pc EXCEPT ![t] = "unlock"]
    /\ UNCHANGED <<now, cookiepder, provP, lock, w, jar, ret>>

\* the deferred st.lock.Unlock() or st.lock.RUnlock(), then the return
TaskUnlock(t) ==
    /\ pc[t] = "unlock"
    /\ lock' = [lock EXCEPT ![TaskReq] = IF IsWrite(call[t]) THEN Unlock(@) ELSE RUnlock(@)]
    /\ pc' = [pc EXCEPT ![t] = "done"]
    /\ UNCHANGED <<now, cookiepder, provP, stores, maps, w, jar, ret, call>>

\* the store SessionRead("") returned to the request, no task started yet
ConcInit ==
    /\ now = 0
    /\ cookiepder = Initialized
    /\ provP = NewProvider
    /\ stores = [r \in Reqs |-> IF r = TaskReq THEN <<[sid |-> <<>>, values |-> 1]>> ELSE <<>>]
    /\ maps = [i \in {1} |-> EmptyMap]
    /\ lock = [r \in Reqs |-> RWFree]
    /\ w = <<>>
    /\ jar = <<>>
    /\ ret = Ret("SessionRead", NIL, "nil")
    /\ pc = [t \in Tasks |-> "idle"]
    /\ call = [t \in Tasks |-> [op |-> "", key |-> "", val |-> NIL, ret |-> NIL]]

TaskStep(t) == TaskLock(t) \/ TaskBody(t) \/ TaskUnlock(t)

ConcNext ==
    \/ \E t \in Tasks, c \in TaskCalls : TaskCall(t, c)
    \/ \E t \in Tasks : TaskLock(t)
    \/ \E t \in Tasks : TaskBody(t)
    \/ \E t \in Tasks : TaskUnlock(t)

ConcSpec == ConcInit /\ [][ConcNext]_vars

\* ------------------------------------------------------------- release among tasks
\* the same tasks, one or more of them calling SessionRelease on the store
ReleaseCall == [op |-> "SessionRelease", key |-> "", val |-> NIL, ret |-> NIL]

\* another task is inside the critical section of a Set, Delete or Flush
WriterInside(t) ==
    \E t2 \in Tasks \ {t} : pc[t2] \in {"body", "unlock"} /\ IsWrite(call[t2])

\* SessionRelease in a task: it reads st.values without taking st.lock.  With
\* no writer inside, it is the call alone.  With a writer inside, the read
\* races with the write: it sees the mapping before or after the write, or the
\* runtime stops the process (concurrent map read and map write).
TaskRelease(t) ==
    /\ pc[t] = "encode"
    /\ \/ /\ ReleaseEffect(TaskReq)
          /\ pc' = [pc EXCEPT ![t] = "done"]
       \/ /\ WriterInside(t)
          /\ ret' = Ret("SessionRelease", NIL, "fatal")
          /\ pc' = [u \in Tasks |-> "fatal"]
          /\ UNCHANGED <<w, jar>>
    /\ UNCHANGED <<now, cookiepder, provP, stores, maps, lock, call>>

RaceNext ==
    \/ \E t \in Tasks, c \in TaskCalls \cup {ReleaseCall} : TaskCall(t, c)
    \/ \E t \in Tasks : TaskLock(t)
    \/ \E t \in Tasks : TaskBody(t)
    \/ \E t \in Tasks : TaskUnlock(t)
    \/ \E t \in Tasks : TaskRelease(t)

RaceSpec == ConcInit /\ [][RaceNext]_vars

\* a task that is not blocked on the lock keeps running
FairSpec == ConcSpec /\ \A t \in Tasks : WF_vars(TaskStep(t))

\* ------------------------------------------------------------- properties
\* the mapping of the store request r holds after the step
ValuesP(r) == maps'[stores'[r][1].values]
\* SessionInit has left a configuration and a cipher in place
ProviderReady == cookiepder.config # <<>> /\ cookiepder.block # <<>>
\* the age of the client's cookie lies within the configured maxage
InMaxAge == now - jar[1].t <= jar[1].cookie.MaxAge
SameMapping(m1, m2) == \A k \in Keys : MapGet(m1, k) = MapGet(m2, k)

\* the steps, told by the call they return from before the action is evaluated
ReadStep(r, sid) == ret'.op = "SessionRead" /\ SessionRead(r, sid)
SetStep(r, k, v) == ret'.op = "Set" /\ Set(r, k, v)
GetStep(r, k) == ret'.op = "Get" /\ Get(r, k)
DeleteStep(r, k) == ret'.op = "Delete" /\ Delete(r, k)
FlushStep(r) == ret'.op = "Flush" /\ Flush(r)
ReleaseStep(r) == ret'.op = "SessionRelease" /\ SessionRelease(r)
\* key k2 is in both mappings with one value, or in neither
SameAt(m1, m2, k2) == (k2 \in DOMAIN m1) = (k2 \in DOMAIN m2) /\ MapGet(m1, k2) = MapGet(m2, k2)

\* C1: after SessionInit, SessionRelease of a store with an encodable mapping V
\* sets a cookie, and SessionRead of that cookie's value within the configured
\* maxage returns a store whose Get gives V[k] for k in V and nil otherwise.
C1_RoundTrip ==
    [][\A r \in One :
         /\ (ProviderReady /\ stores[r] # <<>> /\ Encodable(Values(r)) /\ ReleaseStep(r))
              => (w' # <<>> /\ jar'[1].cookie = w'[1])
         /\ (ProviderReady /\ jar # <<>> /\ InMaxAge /\ ReadStep(r, jar[1].cookie.Value))
              => (stores'[r] # <<>> /\ ret'.err = "nil" /\ SameMapping(ValuesP(r), jar[1].V))]_vars

\* C2: with the provider initialized, SessionRead returns a store and a nil
\* error for every input; the store carries the input as its sid, and its
\* mapping is empty whenever the codec rejects the input, whatever the cause.
C2_ReadNeverFails ==
    [][\A r \in One, sid \in ReadInputs :
         (ProviderReady /\ ReadStep(r, sid))
            => /\ ret'.err = "nil"
               /\ stores'[r] # <<>>
               /\ stores'[r][1].sid = sid
               /\ Decoded(sid).maps = <<>> => ValuesP(r) = EmptyMap]_vars

\* a store that SessionRead returned for a non-empty input the codec rejects
C2_Witness ==
    /\ ProviderReady
    /\ ret = Ret("SessionRead", NIL, "nil")
    /\ stores["r1"] # <<>>
    /\ stores["r1"][1].sid # <<>>
    /\ jar # <<>> /\ jar[1].V # EmptyMap
    /\ stores["r1"][1].sid \in {jar[1].cookie.Value, Tamper(jar[1].cookie.Value)}
    /\ Decoded(stores["r1"][1].sid).maps = <<>>
    /\ Values("r1") = EmptyMap

\* C3: SessionRead restores the values of a cookie released at T when it is
\* read at T + maxage - 1 and returns an empty mapping at T + maxage + 1,
\* maxage being the configured one, whatever maxlifetime SessionInit was given.
C3_ExpiryAtMaxage ==
    [][\A r \in One :
         (ProviderReady /\ jar # <<>> /\ ReadStep(r, jar[1].cookie.Value))
            => /\ (now = jar[1].t + jar[1].cookie.MaxAge - 1) => SameMapping(ValuesP(r), jar[1].V)
               /\ (now = jar[1].t + jar[1].cookie.MaxAge + 1) => ValuesP(r) = EmptyMap]_vars

\* a step that may change what Get(k) returns on the store of r: Set(k, _),
\* Delete(k), Flush, or the request taking a new store from SessionRead
Touches(r, k) ==
    \/ \E v \in Vals : SetStep(r, k, v)
    \/ DeleteStep(r, k)
    \/ FlushStep(r)
    \/ \E sid \in ReadInputs : ReadStep(r, sid)

\* C6: Set(k, v) returns a nil error; after it the mapping has v at k and
\* every other key as before; Get(k) returns what the mapping has at k, which
\* no step but Set(k, _), Delete(k) or Flush on the store changes.
C6_SetInsertsOrOverwrites ==
    [][\A r \in One, k \in Keys :
         /\ \A v \in Vals :
              SetStep(r, k, v)
                 => /\ ret'.err = "nil"
                    /\ k \in DOMAIN ValuesP(r) /\ ValuesP(r)[k] = v
                    /\ \A k2 \in Keys \ {k} : SameAt(ValuesP(r), Values(r), k2)
                    /\ stores'[r][1].sid = stores[r][1].sid
         /\ GetStep(r, k) => ret'.val = (IF k \in DOMAIN Values(r) THEN Values(r)[k] ELSE NIL)
         /\ (stores[r] # <<>> /\ ~Touches(r, k))
              => (stores'[r] # <<>> /\ SameAt(ValuesP(r), Values(r), k))]_vars

\* Set has just returned on a store that holds both keys with different values
C6_Witness ==
    /\ ret = Ret("Set", NIL, "nil")
    /\ stores["r1"] # <<>>
    /\ DOMAIN Values("r1") = Keys
    /\ Values("r1")["uid"] # Values("r1")["n"]

\* C7: Get(k) returns nil when k is not in the mapping and the stored value
\* when it is, and leaves the store and its mapping as they were.
C7_GetAbsentIsNil ==
    [][\A r \in One, k \in Keys :
         GetStep(r, k)
            => /\ k \notin DOMAIN Values(r) => ret'.val = NIL
               /\ k \in DOMAIN Values(r) => ret'.val = Values(r)[k]
               /\ ret'.err = "nil"
               /\ stores' = stores /\ maps' = maps]_vars

\* Get has just returned nil from a store that holds another key
C7_Witness ==
    /\ ret = Ret("Get", NIL, "nil")
    /\ stores["r1"] # <<>>
    /\ Values("r1") # EmptyMap
    /\ DOMAIN Values("r1") # Keys

\* C8: Delete(k) returns a nil error and leaves a mapping without k in which
\* every other key is as before; with k absent the mapping does not change.
C8_DeleteRemovesOnlyKey ==
    [][\A r \in One, k \in Keys :
         DeleteStep(r, k)
            => /\ ret'.err = "nil"
               /\ k \notin DOMAIN ValuesP(r)
               /\ \A k2 \in Keys \ {k} : SameAt(ValuesP(r), Values(r), k2)
               /\ k \notin DOMAIN Values(r) => ValuesP(r) = Values(r)
               /\ stores'[r][1].sid = stores[r][1].sid]_vars

\* Delete has just returned on a store that still holds a key
C8_Witness ==
    /\ ret = Ret("Delete", NIL, "nil")
    /\ stores["r1"] # <<>>
    /\ Values("r1") # EmptyMap

\* C9: Flush returns a nil error and leaves the store with an empty mapping
\* and the same sid; the mapping stays empty until a Set (or a new store);
\* SessionRelease of the store then encodes the empty mapping.
C9_FlushEmpties ==
    [][\A r \in One :
         /\ FlushStep(r)
              => /\ ret'.err = "nil"
                 /\ ValuesP(r) = EmptyMap
                 /\ \A k \in Keys : MapGet(ValuesP(r), k) = NIL
                 /\ stores'[r][1].sid = stores[r][1].sid
         /\ (stores[r] # <<>> /\ Values(r) = EmptyMap
               /\ ~(\E k \in Keys, v \in Vals : SetStep(r, k, v))
               /\ ~(\E sid \in ReadInputs : ReadStep(r, sid)))
              => ValuesP(r) = EmptyMap
         /\ (stores[r] # <<>> /\ Values(r) = EmptyMap /\ ProviderReady /\ ReleaseStep(r))
              => /\ Len(w') = 1
                 /\ w'[1].Value \in
                      {QueryEscape(encodeCookie(cookiepder.block, cookiepder.config[1].SecurityKey,
                                                cookiepder.config[1].SecurityName, EmptyMap, iv, now).str) :
                         iv \in IVs}]_vars

\* Flush has just returned on a store read from a cookie that decodes to a
\* mapping with a key
C9_Witness ==
    /\ ret = Ret("Flush", NIL, "nil")
    /\ ProviderReady
    /\ stores["r1"] # <<>>
    /\ Decoded(stores["r1"][1].sid).maps # <<>>
    /\ Decoded(stores["r1"][1].sid).maps[1] # EmptyMap
    /\ Values("r1") = EmptyMap

\* C10: a Set, Delete or Flush on the store of one request leaves the store of
\* the other request, its sid and its mapping, as they were.
C10_Isolation ==
    [][\A r1 \in Reqs : \A r2 \in Reqs \ {r1} :
         (/\ stores[r2] # <<>>
          /\ \/ \E k \in Keys, v \in Vals : SetStep(r1, k, v)
             \/ \E k \in Keys : DeleteStep(r1, k)
             \/ FlushStep(r1))
            => /\ stores'[r2] # <<>>
               /\ stores'[r2][1].sid = stores[r2][1].sid
               /\ ValuesP(r2) = Values(r2)]_vars

\* Set has just returned on one of two stores read from the same cookie, and
\* the two mappings differ
C10_Witness ==
    /\ ret = Ret("Set", NIL, "nil")
    /\ stores["r1"] # <<>> /\ stores["r2"] # <<>>
    /\ stores["r1"][1].sid # <<>>
    /\ stores["r1"][1].sid = stores["r2"][1].sid
    /\ Values("r1") # Values("r2")

\* a call of one of the six methods the backend leaves empty
NoOpStep ==
    \/ \E sid \in SidInputs : ret'.op = "SessionExist" /\ SessionExist(sid)
    \/ \E oldsid \in SidInputs, sid \in SidInputs :
          ret'.op = "SessionRegenerate" /\ SessionRegenerate(oldsid, sid)
    \/ \E sid \in SidInputs : ret'.op = "SessionDestroy" /\ SessionDestroy(sid)
    \/ ret'.op = "SessionGC" /\ SessionGC
    \/ ret'.op = "SessionAll" /\ SessionAll
    \/ \E sid \in SidInputs : ret'.op = "SessionUpdate" /\ SessionUpdate(sid)

\* C11: in every provider state and for every input, SessionExist returns
\* true, SessionAll returns 0, SessionRegenerate returns no store and no error,
\* SessionDestroy and SessionUpdate return no error, SessionGC returns; none of
\* them changes the provider, a store or a mapping.
C11_NoOps ==
    [][NoOpStep
         => /\ ret'.op = "SessionExist" => ret'.val = TRUE
            /\ ret'.op = "SessionAll" => ret'.val = 0
            /\ ret'.op = "SessionRegenerate" => ret'.val = NIL
            /\ ret'.err = "nil"
            /\ cookiepder' = cookiepder /\ provP' = provP
            /\ stores' = stores /\ maps' = maps /\ lock' = lock
            /\ w' = w /\ jar' = jar]_vars

\* SessionAll has just returned while a store holds a value
C11_Witness ==
    /\ ret.op = "SessionAll"
    /\ ret.val = 0
    /\ stores["r1"] # <<>>
    /\ Values("r1") # EmptyMap

\* C12: SessionRelease writes exactly one cookie when encoding succeeds: its
\* name the configured cookieName, its value the URL-escaped encoding of the
\* present mapping, Path "/", HttpOnly, Secure and MaxAge as configured; when
\* encoding fails it writes none and returns as if nothing had happened; the
\* store keeps its mapping and its sid in both cases.
C12_ReleaseWritesOneOrNone ==
    [][\A r \in One :
         (ProviderReady /\ ReleaseStep(r))
            => /\ Encodable(Values(r))
                  => /\ Len(w') = 1
                     /\ w'[1].Name = cookiepder.config[1].CookieName
                     /\ \E iv \in IVs :
                          w'[1].Value =
                            QueryEscape(encodeCookie(cookiepder.block,
                                                     cookiepder.config[1].SecurityKey,
                                                     cookiepder.config[1].SecurityName,
                                                     Values(r), iv, now).str)
                     /\ w'[1].Path = <<"/">>
                     /\ w'[1].HttpOnly
                     /\ w'[1].Secure = cookiepder.config[1].Secure
                     /\ w'[1].MaxAge = cookiepder.config[1].Maxage
               /\ ~Encodable(Values(r))
                  => (w' = <<>> /\ jar' = jar /\ ret' = Ret("SessionRelease", NIL, "nil"))
               /\ stores' = stores /\ maps' = maps]_vars

\* SessionRelease has just returned without a cookie, from a store whose
\* mapping holds a value the codec cannot serialize beside one it can
C12_Witness ==
    /\ ProviderReady
    /\ ret.op = "SessionRelease"
    /\ w = <<>>
    /\ stores["r1"] # <<>>
    /\ ~Encodable(Values("r1"))
    /\ \E k \in DOMAIN Values("r1") : Values("r1")[k] = "42"

\* the step is the call SessionInit(maxlifetime, config) on cookiepder
InitStep(maxlifetime, config) == ret'.op = "SessionInit" /\ SessionInit(maxlifetime, config)
\* the length of the block key the cipher is given: the configured one, or
\* the 16 generated bytes when none is configured
KeyLen(fields) == IF fields.BlockKey = "" THEN 16 ELSE Len(fields.BlockKey)

SessionIDStep(r) == ret'.op = "SessionID" /\ SessionID(r)
\* a call of any method but SessionInit, by the request r
NotInitStep(r) ==
    \/ \E sid \in ReadInputs : ReadStep(r, sid)
    \/ NoOpStep
    \/ \E k \in Keys, v \in Vals : SetStep(r, k, v)
    \/ \E k \in Keys : GetStep(r, k)
    \/ \E k \in Keys : DeleteStep(r, k)
    \/ FlushStep(r)
    \/ SessionIDStep(r)
    \/ ReleaseStep(r)

\* C14: once SessionInit has succeeded, no call of SessionRead, of the six
\* empty methods or of a store's Set, Get, Delete, Flush, SessionID or
\* SessionRelease changes the provider's configuration, cipher or maxlifetime.
C14_ProviderReadOnly ==
    [][\A r \in One :
         (Serving /\ NotInitStep(r))
            => /\ cookiepder'.config = cookiepder.config
               /\ cookiepder'.block = cookiepder.block
               /\ cookiepder'.maxlifetime = cookiepder.maxlifetime]_vars

\* SessionGC has just returned on an initialized provider that has issued a
\* cookie and has a store in use
C14_Witness ==
    /\ Serving
    /\ ret.op = "SessionGC"
    /\ jar # <<>>
    /\ stores["r1"] # <<>>
    /\ Values("r1") # EmptyMap

\* C15: the store SessionRead(sid) returns has sid as its identifier; no Set,
\* Get, Delete, Flush, SessionRelease or SessionID on the store changes it; and
\* SessionID returns it.
C15_SessionIDStable ==
    [][\A r \in One :
         /\ \A sid \in ReadInputs :
              (ReadStep(r, sid) /\ ret'.err = "nil")
                 => (stores'[r] # <<>> /\ stores'[r][1].sid = sid)
         /\ (\/ \E k \in Keys, v \in Vals : SetStep(r, k, v)
             \/ \E k \in Keys : GetStep(r, k)
             \/ \E k \in Keys : DeleteStep(r, k)
             \/ FlushStep(r)
             \/ ReleaseStep(r)
             \/ SessionIDStep(r))
              => (stores'[r] # <<>> /\ stores'[r][1].sid = stores[r][1].sid)
         /\ SessionIDStep(r) => ret' = Ret("SessionID", stores[r][1].sid, "nil")]_vars

\* SessionID has just returned the cookie string the store was read from,
\* the store's mapping being no longer the one that string decodes to
C15_Witness ==
    /\ ret.op = "SessionID"
    /\ Serving
    /\ stores["r1"] # <<>>
    /\ ret.val # <<>>
    /\ ret.val = stores["r1"][1].sid
    /\ Values("r1") # ReadMaps(Decoded(stores["r1"][1].sid))

\* cookie strings the provider issues in its present state
IssuedNow ==
    {encodeCookie(cookiepder.block, cookiepder.config[1].SecurityKey,
                  cookiepder.config[1].SecurityName, [k \in {"uid"} |-> "42"], iv, now).str :
       iv \in IVs}

\* C17: a SessionInit that returns an error leaves the configuration, cipher
\* and maxlifetime of an earlier successful SessionInit in place, and
\* SessionRead decodes every string as it did before the failed call.
C17_FailedInitKeepsState ==
    [][\A ic \in InitCalls :
         (Serving /\ InitStep(ic[1], ic[2]) /\ ret'.err # "nil")
            => /\ cookiepder' = cookiepder
               /\ \A sid \in ReadInputs \cup IssuedNow :
                    DecodedBy(cookiepder', sid) = DecodedBy(cookiepder, sid)]_vars

\* C18: a store that provP.SessionRead returned is released with provP's own
\* cipher, keys, cookie name, Secure flag and maxage: SessionRelease writes a
\* cookie of provP's configuration whose value provP.SessionRead decodes to
\* the store's mapping.
C18_ReleasedByOwnProvider ==
    [][\A r \in One :
         (ServingOn(provP) /\ stores[r] # <<>> /\ Encodable(Values(r)) /\ ReleaseStep(r))
            => /\ Len(w') = 1
               /\ w'[1].Name = provP.config[1].CookieName
               /\ w'[1].Secure = provP.config[1].Secure
               /\ w'[1].MaxAge = provP.config[1].Maxage
               /\ DecodedBy(provP, w'[1].Value).maps = <<Values(r)>>]_vars

\* C19: the cookie a SessionRelease writes decodes to the mapping as it is at
\* that call; a later Set, Delete or Flush on the store changes neither the
\* cookie written nor the one the client holds; the client's cookie changes
\* only in a SessionRelease, which writes a cookie of its own.
C19_CookieIsSnapshot ==
    [][\A r \in One :
         /\ (ProviderReady /\ stores[r] # <<>> /\ Encodable(Values(r)) /\ ReleaseStep(r))
              => /\ Len(w') = 1
                 /\ jar' = <<[cookie |-> w'[1], t |-> now, V |-> Values(r)]>>
                 /\ DecodedBy(cookiepder, w'[1].Value).maps = <<Values(r)>>
         /\ (\/ \E k \in Keys, v \in Vals : SetStep(r, k, v)
             \/ \E k \in Keys : DeleteStep(r, k)
             \/ FlushStep(r))
              => (w' = w /\ jar' = jar)
         /\ jar' # jar => (ReleaseStep(r) /\ w' # <<>> /\ jar'[1].cookie = w'[1])]_vars

\* Set has just returned on a store released before it: the cookie written
\* still decodes to the mapping as it was, which is no longer the store's
C19_Witness ==
    /\ ProviderReady
    /\ ret.op = "Set"
    /\ stores["r1"] # <<>>
    /\ w # <<>>
    /\ jar # <<>> /\ jar[1].cookie = w[1]
    /\ Decoded(w[1].Value).maps = <<jar[1].V>>
    /\ jar[1].V # EmptyMap
    /\ Values("r1") # jar[1].V

\* a task is between taking the lock and dropping it
InCS(t) == pc[t] \in {"body", "unlock"}
Writes(t) == call[t].op \in {"Set", "Delete", "Flush"}

\* C4: while a Set, Delete or Flush is inside its critical section no other
\* call on the store is inside its own; only Get calls are inside together.
C4_WritersExclusive ==
    \A t1 \in Tasks : (InCS(t1) /\ Writes(t1)) => \A t2 \in Tasks \ {t1} : ~InCS(t2)

\* two Get calls inside their critical sections at the same time
C4_Witness ==
    \E t1 \in Tasks : \E t2 \in Tasks \ {t1} :
        InCS(t1) /\ InCS(t2) /\ call[t1].op = "Get" /\ call[t2].op = "Get"

\* the write a call makes on a mapping
ApplyCall(m, c) ==
    CASE c.op = "Set" -> [x \in DOMAIN m \cup {c.key} |-> IF x = c.key THEN c.val ELSE m[x]]
      [] c.op = "Delete" -> [x \in DOMAIN m \ {c.key} |-> m[x]]
      [] c.op = "Flush" -> EmptyMap
      [] OTHER -> m
RECURSIVE ApplyInOrder(_, _)
ApplyInOrder(m, order) ==
    IF order = <<>> THEN m ELSE ApplyInOrder(ApplyCall(m, call[Head(order)]), Tail(order))
\* the sequences that list every task of S once
Orders(S) == {o \in [1..Cardinality(S) -> S] : \A i, j \in 1..Cardinality(S) : o[i] = o[j] => i = j}
Returned == {t \in Tasks : pc[t] = "done"}
Quiet == \A t \in Tasks : pc[t] \in {"idle", "done"}

\* the step in which task t, inside SessionRelease, reads and encodes st.values
TaskReleaseStep(t) == pc[t] = "encode" /\ pc'[t] # "encode" /\ TaskRelease(t)

\* C16: SessionRelease does not read the mapping while a Set, Delete or Flush
\* of another task is inside its critical section on the same store, so the
\* read never races with a write.
C16_ReleaseExcludesWriters ==
    [][\A t \in Tasks :
         TaskReleaseStep(t)
            => /\ ~(\E t2 \in Tasks \ {t} : InCS(t2) /\ Writes(t2))
               /\ ret'.err # "fatal"]_vars

\* C5: every call that has started returns; when no call is in progress the
\* lock is free and the mapping is what the calls that returned give when
\* made one after the other in some order.
C5_CallsReturn ==
    /\ \A t \in Tasks : (pc[t] \in {"lock", "body", "unlock"}) ~> (pc[t] = "done")
    /\ [](Quiet => /\ lock[TaskReq] = RWFree
                   /\ \E o \in Orders(Returned) : Values(TaskReq) = ApplyInOrder(EmptyMap, o))

\* every task has returned, two of them from writes of different values
C5_Witness ==
    /\ \A t \in Tasks : pc[t] = "done"
    /\ \E t1 \in Tasks : \E t2 \in Tasks \ {t1} :
         call[t1].op = "Set" /\ call[t2].op = "Set" /\ call[t1].val # call[t2].val

====
